---- MODULE Spec2Model ----
(***************************************************************************)
(* Model of the dataset-creation engine of CorpusCompass:                  *)
(*   src/src/dataset_creator/DCThread.py  (generate_dataset, DCThread).    *)
(* A run of DCThread.run is a sequence of steps of generate_dataset, one   *)
(* per loop iteration, interleaved with DCThread.stop called by the host.  *)
(* The helpers of dc_utils (preprocess_corpus, get_name,                   *)
(* check_correct_annotations, find_repetitions, remove_features,           *)
(* get_ngram) are not part of the sources at hand; they are modelled on    *)
(* an abstract paragraph (speaker, tags, unannotated occurrences).         *)
(***************************************************************************)
EXTENDS Integers, Sequences, FiniteSets, TLC

\* ------------------------------------------------------------------------
\* Bounds of the model
\* ------------------------------------------------------------------------
\* longest raw text of the first file, in paragraphs
MaxPars == 2

\* ------------------------------------------------------------------------
\* Abstract corpus: a paragraph is one speaker turn; `tags` are the matches
\* of the feature-tag pattern in it (dot components, literal text, and
\* whether the tag is structurally well formed), `wild` the literal
\* occurrences of tokens outside any tag.
\* ------------------------------------------------------------------------
Tag(fs, txt, wellFormed) == [feats |-> fs, text |-> txt, ok |-> wellFormed]

Par(spk, tgs, wld) == [speaker |-> spk, tags |-> tgs, wild |-> wld]

ParA == Par("JOHN", <<Tag(<<"n">>, "cats", TRUE), Tag(<<"v">>, "dogs", TRUE)>>, <<>>)

ParB == Par("JOHN", <<>>, <<"cats">>)

ParC == Par("MARY", <<Tag(<<"f", "x">>, "cats", TRUE)>>, <<>>)

ParD == Par("", <<>>, <<"dogs">>)

ParE == Par("JOHN", <<Tag(<<"m">>, "dogs", FALSE)>>, <<>>)

ParagraphSet == {ParA, ParB, ParC, ParD, ParE}

SeqsUpTo(S, n) == UNION {[1..k -> S] : k \in 0..n}

\* raw text of the second file
File2Choices == {<<>>, <<ParB>>, <<ParC>>, <<ParD>>}

\* ------------------------------------------------------------------------
\* Python dicts keep insertion order: a dict is a sequence of <<key, value>>
\* pairs with distinct keys.
\* ------------------------------------------------------------------------
Keys(d) == [i \in 1..Len(d) |-> d[i][1]]

KeySet(d) == {d[i][1] : i \in 1..Len(d)}

HasKey(d, k) == k \in KeySet(d)

Get(d, k) == d[CHOOSE i \in 1..Len(d) : d[i][1] = k][2]

\* {**a, **b}
Merge(a, b) ==
    [i \in 1..Len(a) |-> IF HasKey(b, a[i][1]) THEN <<a[i][1], Get(b, a[i][1])>> ELSE a[i]]
        \o SelectSeq(b, LAMBDA e : ~HasKey(a, e[1]))

\* a dictionary value: a list of token values, or one bare token value
ListVal(s) == [list |-> TRUE, items |-> s]

ScalarVal(x) == [list |-> FALSE, items |-> <<x>>]

Range(s) == {s[i] : i \in 1..Len(s)}

\* the variable dictionaries a caller may hand in: <<independent, dependent>>
VariableChoices ==
    { << << <<"gender", ListVal(<<"m", "f">>)>> >>, << <<"pos", ListVal(<<"n", "v">>)>> >> >>,
      << << <<"gender", ListVal(<<"m", "f">>)>> >>, << <<"pos", ListVal(<<"n", "v", "f">>)>> >> >>,
      << << <<"gender", ListVal(<<"m", "f">>)>>, <<"pos", ScalarVal("v")>> >>,
         << <<"pos", ListVal(<<"n">>)>> >> >> }

\* the speaker-of-interest dictionaries a caller may hand in
SpeakerChoices ==
    { <<>>,
      << <<"JOHN", <<>>>> >>,
      << <<"JOHN", <<"m">>>>, <<"MARY", <<"m">>>> >>,
      << <<"JOHN ", <<"m">>>> >>,
      << <<"JOHN", <<"z">>>> >> }

\* str.strip on the speaker names that occur
strip(s) == IF s = "JOHN " THEN "JOHN" ELSE s

\* sorted() on the category names and on the speaker names that occur
CategoryOrder == <<"gender", "pos">>

SpeakerOrder == <<"JOHN", "MARY">>

SortedCategories(S) == SelectSeq(CategoryOrder, LAMBDA n : n \in S)

SortedSpeakers(S) == SelectSeq(SpeakerOrder, LAMBDA n : n \in S)

\* list.index: position of the first occurrence
IndexOf(s, x) == CHOOSE i \in 1..Len(s) : s[i] = x /\ \A j \in 1..(i - 1) : s[j] # x

RECURSIVE SumSeq(_)
SumSeq(s) == IF s = <<>> THEN 0 ELSE Head(s) + SumSeq(Tail(s))

RECURSIVE Flatten(_)
Flatten(ss) == IF ss = <<>> THEN <<>> ELSE Head(ss) \o Flatten(Tail(ss))

Count(s, x) == Len(SelectSeq(s, LAMBDA e : e = x))

\* ------------------------------------------------------------------------
\* dc_utils
\* ------------------------------------------------------------------------
get_name(p) == p.speaker

preprocess_corpus(raw) == SelectSeq(raw, LAMBDA p : get_name(p) # "")

\* the texts of the well-formed tags of one file
check_correct_annotations(crp) ==
    Flatten([i \in 1..Len(crp) |->
        [k \in 1..Len(SelectSeq(crp[i].tags, LAMBDA t : t.ok)) |->
            SelectSeq(crp[i].tags, LAMBDA t : t.ok)[k].text]])

\* occurrences of `token` in a span of paragraphs
find_repetitions(span, token, interest, check_annotated) ==
    [wild_rep |-> SumSeq([i \in 1..Len(span) |-> Count(span[i].wild, token)]),
     wild_rep_interest |->
        SumSeq([i \in 1..Len(span) |->
            IF get_name(span[i]) \in interest THEN Count(span[i].wild, token) ELSE 0]),
     ann_rep |->
        SumSeq([i \in 1..Len(span) |->
            Len(SelectSeq(span[i].tags, LAMBDA t : t.text = token))]),
     wna |->
        IF check_annotated THEN <<>>
        ELSE Flatten([i \in 1..Len(span) |->
                [k \in 1..Count(span[i].wild, token) |-> <<get_name(span[i]), token, k>>]])]

\* the malformed tag fragments of a paragraph
remove_features(c) == SelectSeq(c.tags, LAMBDA t : ~t.ok)

\* the context window of the k-th tag of paragraph c
get_ngram(c, k) == <<c, k>>

\* ------------------------------------------------------------------------
\* State
\* ------------------------------------------------------------------------
VARIABLES
    corpus_in,              \* DCThread.corpus_dict: file -> raw paragraphs
    speakers,               \* DCThread.speakers: speaker -> assigned values
    independent_variables,  \* DCThread.independent_variables
    dependent_variables,    \* DCThread.dependent_variables
    previous_line,          \* the include-previous-line option of inputs
    stop_event,             \* DCThread.stop_event
    results,                \* DCThread.results
    finished,               \* the finished signal has been emitted
    pc,                     \* position of the worker thread in generate_dataset
    ret,                    \* how generate_dataset ended
    corpus_dict,            \* file -> preprocessed paragraphs
    idv,                    \* inverse index: token value -> category
    csv_header,
    csv_file,               \* the rows appended after the header
    unk_categories,
    annotations,
    annotation_counter,     \* token -> (field -> count)
    not_annotated_log,      \* file -> token -> snippets
    file_speakers,
    fi,                     \* index of the outer loop of the running stage
    ti,                     \* index of the inner loop of the running stage
    log,                    \* the messages handed to the logger
    observed                \* a poll of the stop flag has seen it set

inputVars == <<corpus_in, speakers, independent_variables, dependent_variables, previous_line>>

localVars == <<corpus_dict, idv, csv_header, csv_file, unk_categories, annotations,
               annotation_counter, not_annotated_log, file_speakers, fi, ti>>

vars == <<corpus_in, speakers, independent_variables, dependent_variables, previous_line,
          stop_event, results, finished, pc, ret, corpus_dict, idv, csv_header, csv_file,
          unk_categories, annotations, annotation_counter, not_annotated_log,
          file_speakers, fi, ti, log, observed>>

\* outcomes of generate_dataset and values of DCThread.results
None == [kind |-> "None"]

Running == [kind |-> "running"]

Return(v) == [kind |-> "return", val |-> v]

Raise(e) == [kind |-> "raise", exc |-> e]

ErrMsg(e) == [kind |-> "error", exc |-> e]

Init ==
    /\ \E f1 \in SeqsUpTo(ParagraphSet, MaxPars), f2 \in File2Choices :
            corpus_in = << <<"f1", f1>>, <<"f2", f2>> >>
    /\ speakers \in SpeakerChoices
    /\ \E v \in VariableChoices :
            /\ independent_variables = v[1]
            /\ dependent_variables = v[2]
    /\ previous_line \in BOOLEAN
    /\ stop_event = FALSE
    /\ results = None
    /\ finished = FALSE
    /\ pc = "start"
    /\ ret = Running
    /\ corpus_dict = <<>>
    /\ idv = <<>>
    /\ csv_header = <<>>
    /\ csv_file = <<>>
    /\ unk_categories = <<>>
    /\ annotations = <<>>
    /\ annotation_counter = <<>>
    /\ not_annotated_log = <<>>
    /\ file_speakers = <<>>
    /\ fi = 0
    /\ ti = 0
    /\ log = <<>>
    /\ observed = FALSE

\* ------------------------------------------------------------------------
\* Values derived from the inputs at the start of generate_dataset
\* ------------------------------------------------------------------------
speakers_of_interest == [i \in 1..Len(speakers) |-> strip(speakers[i][1])]

InterestSet == Range(speakers_of_interest)

Values(d) == [i \in 1..Len(d) |-> d[i][2]]

corpus == Flatten(Values(corpus_dict))

all_speakers == {get_name(corpus[i]) : i \in 1..Len(corpus)} \ {""}

\* file -> sorted speaker names, for the files that have a paragraph
all_speakers_dict ==
    SelectSeq([i \in 1..Len(corpus_dict) |->
                  <<corpus_dict[i][1],
                    SortedSpeakers({get_name(corpus_dict[i][2][k]) : k \in 1..Len(corpus_dict[i][2])})>>],
              LAMBDA e : Len(e[2]) > 0)

\* variant: the emptiness of the corpus is not checked
NeverEmpty(crp) == FALSE

CorpusIsEmpty(crp) == Len(crp) = 0

\* the duplicates listed by the warning: the keys found in both dictionaries
DuplicateKeys(variable_dict) ==
    SelectSeq(variable_dict,
              LAMBDA e : HasKey(independent_variables, e[1]) /\ HasKey(dependent_variables, e[1]))

\* idv[i] = token for every i of every entry, in dictionary order
RECURSIVE PutAll(_, _, _)
PutAll(f, items, cat) ==
    IF items = <<>> THEN f ELSE PutAll((Head(items) :> cat) @@ f, Tail(items), cat)

RECURSIVE InverseIndex(_, _)
InverseIndex(variable_dict, acc) ==
    IF variable_dict = <<>> THEN acc
    ELSE InverseIndex(Tail(variable_dict),
                      PutAll(acc, Head(variable_dict)[2].items, Head(variable_dict)[1]))

csv_end == (IF previous_line THEN <<"previous line">> ELSE <<>>)
               \o <<"speaker", "interlocutor/s", "file", "context", "unk">>

CsvHeader ==
    <<"token">> \o SortedCategories(KeySet(dependent_variables))
                \o SortedCategories(KeySet(independent_variables)) \o csv_end

\* variant: a set flag does not end the run
StopIgnored(flag) == FALSE

\* `if stop_flag.is_set(): ... return None`
StopRequested(flag) == flag

\* a poll of the stop flag, after the messages lg have been logged: the run
\* goes on at `next` unless the flag is set
Poll(next, lg) ==
    /\ observed' = (observed \/ stop_event)
    /\ IF StopRequested(stop_event)
       THEN /\ pc' = "returned"
            /\ ret' = Return(None)
            /\ log' = Append(lg, [level |-> "info", msg |-> "Dataset generation stopped."])
       ELSE /\ pc' = next
            /\ ret' = ret
            /\ log' = lg

\* DCThread.stop
Stop ==
    /\ ~stop_event
    /\ stop_event' = TRUE
    /\ UNCHANGED <<inputVars, localVars, results, finished, pc, ret, log, observed>>

\* generate_dataset up to the first poll
Setup ==
    /\ pc = "start"
    /\ LET cd == [i \in 1..Len(corpus_in) |->
                    <<corpus_in[i][1], preprocess_corpus(corpus_in[i][2])>>]
           variable_dict == Merge(independent_variables, dependent_variables)
           names == {get_name(Flatten(Values(cd))[i]) : i \in 1..Len(Flatten(Values(cd)))} \ {""}
           notInList == IF Len(speakers) > 0 /\ names \ InterestSet # {}
                        THEN <<[level |-> "warning", msg |-> "not of interest",
                                what |-> names \ InterestSet]>>
                        ELSE <<>>
           dups == IF Len(variable_dict) # Len(independent_variables) + Len(dependent_variables)
                   THEN <<[level |-> "warning", msg |-> "duplicate variables",
                           what |-> DuplicateKeys(variable_dict)]>>
                   ELSE <<>>
       IN  /\ corpus_dict' = cd
           /\ IF CorpusIsEmpty(Flatten(Values(cd)))
              THEN /\ pc' = "returned"
                   /\ ret' = Raise("ValueError: The corpus is empty!")
                   /\ log' = Append(log, [level |-> "error", msg |-> "corpus empty"])
                   /\ UNCHANGED <<idv, csv_header, fi, observed>>
              ELSE /\ idv' = InverseIndex(variable_dict, <<>>)
                   /\ csv_header' = CsvHeader
                   /\ fi' = 1
                   /\ Poll("validate", log \o notInList \o dups)
    /\ UNCHANGED <<inputVars, stop_event, results, finished, csv_file, unk_categories,
                   annotations, annotation_counter, not_annotated_log, file_speakers, ti>>

\* ------------------------------------------------------------------------
\* The statistics table: token -> (field -> count).  A field is named by a
\* pair <<speaker, suffix>>; the fields of the token itself have speaker "".
\* ------------------------------------------------------------------------
Field(name) == <<"", name>>

SpField(sp, name) == <<sp, name>>

SetEntry(ac, i, entry) == [ac EXCEPT ![i] = <<ac[i][1], entry>>]

RECURSIVE Dedup(_, _)
Dedup(s, seen) ==
    IF s = <<>> THEN <<>>
    ELSE IF Head(s) \in seen THEN Dedup(Tail(s), seen)
         ELSE <<Head(s)>> \o Dedup(Tail(s), seen \cup {Head(s)})

\* Counter(annotations), then {k: dict(annotated=v)}
CounterOf(s) ==
    [i \in 1..Len(Dedup(s, {})) |->
        <<Dedup(s, {})[i], (Field("annotated") :> Count(s, Dedup(s, {})[i]))>>]

FieldSum(ac, name) == SumSeq([i \in 1..Len(ac) |-> ac[i][2][Field(name)]])

\* variant: the total leaves out the unannotated occurrences
TotalOfAnnotatedOnly(entry) == entry[Field("annotated")]

\* total = annotated + not annotated
TotalOf(entry) == entry[Field("annotated")] + entry[Field("not annotated")]

\* one file of the validation loop; the loop does not poll the stop flag
ValidateFile ==
    /\ pc = "validate"
    /\ fi <= Len(corpus_dict)
    /\ annotations' = annotations \o check_correct_annotations(corpus_dict[fi][2])
    /\ fi' = fi + 1
    /\ UNCHANGED <<inputVars, stop_event, results, finished, pc, ret, corpus_dict, idv,
                   csv_header, csv_file, unk_categories, annotation_counter,
                   not_annotated_log, file_speakers, ti, log, observed>>

\* after the validation loop: the error report and the counter of annotations
AfterValidate ==
    /\ pc = "validate"
    /\ fi > Len(corpus_dict)
    /\ annotation_counter' = CounterOf(annotations)
    /\ log' = IF \E i \in 1..Len(corpus) : remove_features(corpus[i]) # <<>>
              THEN Append(log, [level |-> "error", msg |-> "malformed annotations"])
              ELSE log
    /\ pc' = "whole"
    /\ ti' = 1
    /\ UNCHANGED <<inputVars, stop_event, results, finished, ret, corpus_dict, idv,
                   csv_header, csv_file, unk_categories, annotations, not_annotated_log,
                   file_speakers, fi, observed>>

\* one token of the whole-corpus pass: count, then poll
WholeToken ==
    /\ pc = "whole"
    /\ ti <= Len(annotation_counter)
    /\ LET token == annotation_counter[ti][1]
           v == annotation_counter[ti][2]
           r == find_repetitions(corpus, token, InterestSet, TRUE)
           total_rep == r.wild_rep + r.ann_rep
           not_annotated == total_rep - v[Field("annotated")]
       IN annotation_counter' =
            SetEntry(annotation_counter, ti,
                     (Field("not annotated") :> not_annotated)
                        @@ (Field("not_annotated_interest") :> r.wild_rep_interest) @@ v)
    /\ ti' = ti + 1
    /\ Poll("whole", log)
    /\ UNCHANGED <<inputVars, stop_event, results, finished, corpus_dict, idv, csv_header,
                   csv_file, unk_categories, annotations, not_annotated_log, file_speakers, fi>>

\* after the whole-corpus pass: the aggregate coverage report
Aggregate ==
    /\ pc = "whole"
    /\ ti > Len(annotation_counter)
    /\ LET annotated == FieldSum(annotation_counter, "annotated")
           not_annotated == FieldSum(annotation_counter, "not annotated")
           not_annotated_interest == FieldSum(annotation_counter, "not_annotated_interest")
       IN IF not_annotated = 0
          THEN /\ pc' = "returned"
               /\ ret' = Raise("ZeroDivisionError")
               /\ log' = log
          ELSE /\ pc' = "perfile"
               /\ ret' = ret
               /\ log' = Append(log, [level |-> "info", msg |-> "coverage",
                                      annotated |-> annotated,
                                      not_annotated |-> not_annotated,
                                      interest |-> not_annotated_interest,
                                      percent |-> (not_annotated_interest * 100) \div not_annotated])
    /\ fi' = 1
    /\ ti' = 1
    /\ UNCHANGED <<inputVars, stop_event, results, finished, corpus_dict, idv, csv_header,
                   csv_file, unk_categories, annotations, annotation_counter,
                   not_annotated_log, file_speakers, observed>>

\* advance the indices of a nested loop over n inner items
NextOuter(n) == IF ti >= n THEN fi + 1 ELSE fi

NextInner(n) == IF ti >= n THEN 1 ELSE ti + 1

\* one token of one file of the per-file pass: record the snippets, then poll
PerFileToken ==
    /\ pc = "perfile"
    /\ fi <= Len(corpus_dict)
    /\ LET path == corpus_dict[fi][1]
           crp == SelectSeq(corpus_dict[fi][2], LAMBDA x : get_name(x) \in InterestSet)
           token == annotation_counter[ti][1]
           wna == find_repetitions(crp, token, InterestSet, FALSE).wna
           opened == IF ti = 1 THEN Append(not_annotated_log, <<path, <<>>>>)
                     ELSE not_annotated_log
           n == Len(opened)
       IN not_annotated_log' =
            IF Len(wna) > 0
            THEN [opened EXCEPT ![n] = <<path, Append(opened[n][2], <<token, wna>>)>>]
            ELSE opened
    /\ fi' = NextOuter(Len(annotation_counter))
    /\ ti' = NextInner(Len(annotation_counter))
    /\ Poll("perfile", log)
    /\ UNCHANGED <<inputVars, stop_event, results, finished, corpus_dict, idv, csv_header,
                   csv_file, unk_categories, annotations, annotation_counter, file_speakers>>

AfterPerFile ==
    /\ pc = "perfile"
    /\ fi > Len(corpus_dict)
    /\ pc' = "perspeaker"
    /\ fi' = 1
    /\ ti' = 1
    /\ UNCHANGED <<inputVars, stop_event, results, finished, ret, corpus_dict, idv,
                   csv_header, csv_file, unk_categories, annotations, annotation_counter,
                   not_annotated_log, file_speakers, log, observed>>

\* one token of one speaker of the per-speaker pass: count, then poll
PerSpeakerToken ==
    /\ pc = "perspeaker"
    /\ fi <= Len(speakers)
    /\ LET sp == speakers[fi][1]
           sp_corpus == SelectSeq(corpus, LAMBDA c : get_name(c) = sp)
           token == annotation_counter[ti][1]
           r == find_repetitions(sp_corpus, token, InterestSet, TRUE)
       IN annotation_counter' =
            SetEntry(annotation_counter, ti,
                     (SpField(sp, " not annotated") :> r.wild_rep)
                        @@ (SpField(sp, " annotated") :> r.ann_rep)
                        @@ annotation_counter[ti][2])
    /\ fi' = NextOuter(Len(annotation_counter))
    /\ ti' = NextInner(Len(annotation_counter))
    /\ Poll("perspeaker", log)
    /\ UNCHANGED <<inputVars, stop_event, results, finished, corpus_dict, idv, csv_header,
                   csv_file, unk_categories, annotations, not_annotated_log, file_speakers>>

AfterPerSpeaker ==
    /\ pc = "perspeaker"
    /\ fi > Len(speakers)
    /\ pc' = "total"
    /\ fi' = 1
    /\ ti' = 0
    /\ UNCHANGED <<inputVars, stop_event, results, finished, ret, corpus_dict, idv,
                   csv_header, csv_file, unk_categories, annotations, annotation_counter,
                   not_annotated_log, file_speakers, log, observed>>

\* the total of one token; this level of the loop does not poll
TotalToken ==
    /\ pc = "total"
    /\ fi <= Len(annotation_counter)
    /\ ti = 0
    /\ annotation_counter' =
            SetEntry(annotation_counter, fi,
                     (Field("total") :> TotalOf(annotation_counter[fi][2]))
                        @@ annotation_counter[fi][2])
    /\ fi' = IF Len(speakers_of_interest) = 0 THEN fi + 1 ELSE fi
    /\ ti' = IF Len(speakers_of_interest) = 0 THEN 0 ELSE 1
    /\ UNCHANGED <<inputVars, stop_event, results, finished, pc, ret, corpus_dict, idv,
                   csv_header, csv_file, unk_categories, annotations, not_annotated_log,
                   file_speakers, log, observed>>

\* one speaker of interest of one token: the speaker's columns are set to 0,
\* then poll
TotalSpeaker ==
    /\ pc = "total"
    /\ fi <= Len(annotation_counter)
    /\ ti >= 1
    /\ LET speaker == speakers_of_interest[ti]
       IN annotation_counter' =
            SetEntry(annotation_counter, fi,
                     (SpField(speaker, " annotated") :> 0)
                        @@ (SpField(speaker, " not annotated") :> 0)
                        @@ annotation_counter[fi][2])
    /\ fi' = IF ti >= Len(speakers_of_interest) THEN fi + 1 ELSE fi
    /\ ti' = IF ti >= Len(speakers_of_interest) THEN 0 ELSE ti + 1
    /\ Poll("total", log)
    /\ UNCHANGED <<inputVars, stop_event, results, finished, corpus_dict, idv, csv_header,
                   csv_file, unk_categories, annotations, not_annotated_log, file_speakers>>

AfterTotal ==
    /\ pc = "total"
    /\ fi > Len(annotation_counter)
    /\ pc' = "main"
    /\ fi' = 1
    /\ ti' = 0
    /\ log' = Append(log, [level |-> "info", msg |-> "Starting the main loop"])
    /\ UNCHANGED <<inputVars, stop_event, results, finished, ret, corpus_dict, idv,
                   csv_header, csv_file, unk_categories, annotations, annotation_counter,
                   not_annotated_log, file_speakers, observed>>

\* ------------------------------------------------------------------------
\* The main pass
\* ------------------------------------------------------------------------
\* s[i] for a Python index i, which counts from 0 and from the end if negative
PyIndex(s, i) == s[IF i < 0 THEN Len(s) + i + 1 ELSE i + 1]

\* csv_line = ["" for _ in csv_header]; the last cell collects the unresolved
\* components, kept as the list that the cell joins with commas
EmptyLine == [i \in 1..Len(csv_header) |-> IF i = Len(csv_header) THEN <<>> ELSE ""]

\* speakers_variables.get(cur_speaker, [])
SpeakerVarsOf(cur_speaker) ==
    IF HasKey(speakers, cur_speaker) THEN Get(speakers, cur_speaker) ELSE <<>>

\* the independent values of the speaker, each into the column of its category
RECURSIVE SetSpeakerVars(_, _)
SetSpeakerVars(line, vs) ==
    IF vs = <<>> THEN line
    ELSE SetSpeakerVars([line EXCEPT ![IndexOf(csv_header, idv[Head(vs)])] = Head(vs)],
                        Tail(vs))

\* variant: an unresolved component lands in the first category column
PlaceFeatureMisplaced(line, f) ==
    IF f \notin DOMAIN idv
    THEN [line EXCEPT ![2] = f]
    ELSE [line EXCEPT ![IndexOf(csv_header, idv[f])] = f]

\* one dot component of a tag: into the column of its category, or into unk
PlaceFeature(line, f) ==
    IF f \notin DOMAIN idv
    THEN [line EXCEPT ![Len(line)] = Append(@, f)]
    ELSE [line EXCEPT ![IndexOf(csv_header, idv[f])] = f]

RECURSIVE SetFeatures(_, _)
SetFeatures(line, fs) ==
    IF fs = <<>> THEN line ELSE SetFeatures(PlaceFeature(line, Head(fs)), Tail(fs))

\* the row of the k-th tag of paragraph c of file file_path
RowOf(c, k, sp, file_path, fspeakers) ==
    LET t == c.tags[k]
        cur_speaker == get_name(c)
        line == SetFeatures(SetSpeakerVars(EmptyLine, SpeakerVarsOf(cur_speaker)), t.feats)
        n == Len(line)
        filled == [line EXCEPT ![1] = t.text,
                               ![n - 1] = get_ngram(c, k),
                               ![n - 2] = file_path,
                               ![n - 3] = SelectSeq(fspeakers, LAMBDA x : x # cur_speaker),
                               ![n - 4] = cur_speaker]
    IN IF previous_line THEN [filled EXCEPT ![n - 5] = sp] ELSE filled

\* the tags of paragraph c from the k-th on; acc holds the rows and unknown
\* components so far and the exception that ended the paragraph, if any.
\* waringFails: the logger has no method `waring`.
RECURSIVE TagRows(_, _, _, _, _, _, _)
TagRows(c, k, sp, file_path, fspeakers, waringFails, acc) ==
    IF k > Len(c.tags) \/ acc.exc # "" THEN acc
    ELSE LET t == c.tags[k]
             skipped == t.text \notin KeySet(annotation_counter)
                            \/ t \in Range(remove_features(c))
             vs == SpeakerVarsOf(get_name(c))
         IN IF skipped
            THEN TagRows(c, k + 1, sp, file_path, fspeakers, waringFails,
                         IF waringFails THEN [acc EXCEPT !.exc = "AttributeError"] ELSE acc)
            ELSE IF \E i \in 1..Len(vs) : vs[i] \notin DOMAIN idv
            THEN [acc EXCEPT !.exc = "KeyError"]
            ELSE TagRows(c, k + 1, sp, file_path, fspeakers, waringFails,
                         [acc EXCEPT !.rows = Append(@, RowOf(c, k, sp, file_path, fspeakers)),
                                     !.unk = @ \o SelectSeq(t.feats,
                                                    LAMBDA f : f \notin DOMAIN idv)])

\* the head of one file of the main pass: the speakers heard in the file
MainFile ==
    /\ pc = "main"
    /\ fi <= Len(corpus_dict)
    /\ ti = 0
    /\ IF HasKey(all_speakers_dict, corpus_dict[fi][1])
       THEN /\ file_speakers' = Get(all_speakers_dict, corpus_dict[fi][1])
            /\ ti' = 1
            /\ UNCHANGED <<pc, ret>>
       ELSE /\ pc' = "returned"
            /\ ret' = Raise("KeyError")
            /\ UNCHANGED <<file_speakers, ti>>
    /\ UNCHANGED <<inputVars, stop_event, results, finished, corpus_dict, idv, csv_header,
                   csv_file, unk_categories, annotations, annotation_counter,
                   not_annotated_log, fi, log, observed>>

\* one paragraph of the main pass: poll, then one row per tag of the
\* paragraph if its speaker is of interest
MainParagraph ==
    /\ pc = "main"
    /\ fi <= Len(corpus_dict)
    /\ ti >= 1
    /\ LET file_path == corpus_dict[fi][1]
           crp == corpus_dict[fi][2]
           idx == ti - 1
           c == PyIndex(crp, idx)
           last == ti >= Len(crp)
       IN IF StopRequested(stop_event)
          THEN /\ Poll("main", log)
               /\ UNCHANGED <<csv_file, unk_categories, fi, ti>>
          ELSE \E waringFails \in BOOLEAN :
               LET out == IF get_name(c) \in InterestSet
                          THEN TagRows(c, 1, PyIndex(crp, idx - 1), file_path, file_speakers,
                                       waringFails,
                                       [rows |-> csv_file, unk |-> unk_categories, exc |-> ""])
                          ELSE [rows |-> csv_file, unk |-> unk_categories, exc |-> ""]
               IN /\ observed' = (observed \/ stop_event)
                  /\ log' = log
                  /\ IF out.exc # ""
                     THEN /\ pc' = "returned"
                          /\ ret' = Raise(out.exc)
                          /\ UNCHANGED <<csv_file, unk_categories, fi, ti>>
                     ELSE /\ csv_file' = out.rows
                          /\ unk_categories' = out.unk
                          /\ fi' = IF last THEN fi + 1 ELSE fi
                          /\ ti' = IF last THEN 0 ELSE ti + 1
                          /\ UNCHANGED <<pc, ret>>
    /\ UNCHANGED <<inputVars, stop_event, results, finished, corpus_dict, idv, csv_header,
                   annotations, annotation_counter, not_annotated_log, file_speakers>>

\* ------------------------------------------------------------------------
\* The tables of the bundle
\* ------------------------------------------------------------------------
\* the snippet lists of the log, over all files and tokens
SnippetLists == Flatten([i \in 1..Len(not_annotated_log) |-> Values(not_annotated_log[i][2])])

\* the rows [path, token] + context
MissingRows ==
    Flatten([i \in 1..Len(not_annotated_log) |->
        [k \in 1..Len(not_annotated_log[i][2]) |->
            <<not_annotated_log[i][1], not_annotated_log[i][2][k][1],
              not_annotated_log[i][2][k][2]>>]])

to_drop == {"context", "token", "unk", "file"}

\* the positions of the columns that get_dummies encodes
EncodedPositions ==
    SelectSeq([i \in 1..Len(csv_header) |-> i], LAMBDA i : csv_header[i] \notin to_drop)

\* the indicator <<column, value>> that is 1 in a row, for every encoded column
IndicatorsOf(row) ==
    [j \in 1..Len(EncodedPositions) |->
        <<csv_header[EncodedPositions[j]], row[EncodedPositions[j]]>>]

\* pd.get_dummies on the table without to_drop, then token and context re-attached
BinaryDataset ==
    [indicator_columns |->
        Dedup(Flatten([r \in 1..Len(csv_file) |-> IndicatorsOf(csv_file[r])]), {}),
     passthrough |-> <<"token", "context">>,
     rows |-> [r \in 1..Len(csv_file) |->
                [ones |-> IndicatorsOf(csv_file[r]),
                 token |-> csv_file[r][IndexOf(csv_header, "token")],
                 context |-> csv_file[r][IndexOf(csv_header, "context")]]]]

Bundle ==
    [kind |-> "bundle",
     dataset |-> [columns |-> csv_header, rows |-> csv_file],
     annotation_info |-> annotation_counter,
     missed_annotations |-> MissingRows,
     binary_dataset |-> BinaryDataset]

\* after the main pass: the tables, the bundle and the unknown categories
Finish ==
    /\ pc = "main"
    /\ fi > Len(corpus_dict)
    /\ pc' = "returned"
    /\ IF Len(annotation_counter) = 0
       THEN /\ ret' = Raise("IndexError")
            /\ log' = log
       ELSE IF Len(not_annotated_log) > 0 /\ Len(SnippetLists) = 0
       THEN /\ ret' = Raise("ValueError: max() arg is an empty sequence")
            /\ log' = log
       ELSE IF Len(not_annotated_log) = 0
       THEN /\ ret' = Raise("IndexError")
            /\ log' = log
       ELSE /\ ret' = Return(Bundle)
            /\ log' = IF Len(unk_categories) > 0
                      THEN Append(log, [level |-> "warning", msg |-> "unknown categories",
                                        what |-> Range(unk_categories)])
                      ELSE log
    /\ UNCHANGED <<inputVars, stop_event, results, finished, localVars, observed>>

\* DCThread.run around generate_dataset: the outcome, then the finished signal
RunEnd ==
    /\ pc = "returned"
    /\ results' = IF ret.kind = "return" THEN ret.val ELSE ErrMsg(ret.exc)
    /\ finished' = TRUE
    /\ pc' = "finished"
    /\ UNCHANGED <<inputVars, localVars, stop_event, ret, log, observed>>

Next ==
    \/ Stop
    \/ Setup
    \/ ValidateFile
    \/ AfterValidate
    \/ WholeToken
    \/ Aggregate
    \/ PerFileToken
    \/ AfterPerFile
    \/ PerSpeakerToken
    \/ AfterPerSpeaker
    \/ TotalToken
    \/ TotalSpeaker
    \/ AfterTotal
    \/ MainFile
    \/ MainParagraph
    \/ Finish
    \/ RunEnd

Spec == Init /\ [][Next]_vars

TypeOK ==
    /\ stop_event \in BOOLEAN
    /\ finished \in BOOLEAN
    /\ pc \in {"start", "validate", "whole", "perfile", "perspeaker", "total", "main",
               "returned", "finished"}
    /\ results.kind \in {"None", "error", "bundle"}
    /\ ret.kind \in {"running", "return", "raise"}

\* ------------------------------------------------------------------------
\* Properties
\* ------------------------------------------------------------------------
Ended == pc \in {"returned", "finished"}

Cancelled == ret.kind = "return" /\ ret.val = None

Completed == results.kind = "bundle"

\* C1: once a poll of the stop flag has seen the flag set, generate_dataset
\* has returned the cancellation sentinel and DCThread.results, once written,
\* is that sentinel: no bundle with a truncated stage is ever returned.
CancelYieldsSentinel ==
    observed => /\ Ended
                /\ Cancelled
                /\ results = None

\* a run cancelled in the main pass after rows had been built
CancelledMidMainPass ==
    /\ pc = "finished"
    /\ observed
    /\ csv_file # <<>>
    /\ results = None

\* C2: with the flag set, no loop iteration of any stage does its work:
\* every iteration of every stage polls the flag before anything else.
NoIterationAfterStop ==
    [][stop_event =>
        ~(\/ ValidateFile
          \/ WholeToken
          \/ PerFileToken
          \/ PerSpeakerToken
          \/ TotalToken
          \/ TotalSpeaker
          \/ MainFile
          \/ (MainParagraph /\ csv_file' # csv_file))]_vars

\* C3: a summed not_annotated of zero does not end the run with a division
\* by zero (the report states zero and the run goes on).
NoDivisionByZero == ~(ret.kind = "raise" /\ ret.exc = "ZeroDivisionError")

\* C4: in the statistics table of a completed run the columns of every
\* declared speaker hold, for every token, the counts of the per-speaker pass
\* over that speaker's paragraphs.
SpeakerCountsKept ==
    Completed =>
        \A i \in 1..Len(results.annotation_info), s \in 1..Len(speakers) :
            LET token == results.annotation_info[i][1]
                entry == results.annotation_info[i][2]
                sp == speakers[s][1]
                r == find_repetitions(SelectSeq(corpus, LAMBDA c : get_name(c) = sp),
                                      token, InterestSet, TRUE)
            IN /\ entry[SpField(sp, " annotated")] = r.ann_rep
               /\ entry[SpField(sp, " not annotated")] = r.wild_rep

\* the entries of the merged dictionaries, independent first
AllEntries == independent_variables \o dependent_variables

FirstCategoryOf(x) ==
    AllEntries[CHOOSE i \in 1..Len(AllEntries) :
                    /\ x \in Range(AllEntries[i][2].items)
                    /\ \A j \in 1..(i - 1) : x \notin Range(AllEntries[j][2].items)][1]

\* the token values listed under more than one category
DuplicatedValues ==
    {x \in UNION {Range(AllEntries[i][2].items) : i \in 1..Len(AllEntries)} :
        \E i, j \in 1..Len(AllEntries) :
            /\ AllEntries[i][1] # AllEntries[j][1]
            /\ x \in Range(AllEntries[i][2].items)
            /\ x \in Range(AllEntries[j][2].items)}

\* C5: the inverse index maps a token value listed under several categories
\* to the category seen first.
FirstSeenCategoryWins ==
    \A x \in DuplicatedValues : x \in DOMAIN idv => idv[x] = FirstCategoryOf(x)

\* C6: every token value listed under more than one category is named by a
\* duplicate warning once the dictionaries have been merged.
DuplicateValuesWarned ==
    csv_header # <<>> =>
        \A x \in DuplicatedValues :
            \E i \in 1..Len(log) :
                /\ log[i].msg = "duplicate variables"
                /\ \E k \in 1..Len(log[i].what) :
                        x \in Range(log[i].what[k][2].items)

\* the columns of the categories in a row
CategoryPositions == 2..(Len(csv_header) - Len(csv_end))

SpeakerPosition == Len(csv_header) - 4

\* C7: in every row, the column of an independent category for which the
\* row's speaker has an assigned value holds that value.
SpeakerValueWins ==
    \A r \in 1..Len(csv_file) :
        LET vs == SpeakerVarsOf(csv_file[r][SpeakerPosition])
        IN \A k \in 1..Len(vs), i \in 1..Len(independent_variables) :
                vs[k] \in Range(independent_variables[i][2].items)
                    => csv_file[r][IndexOf(csv_header, independent_variables[i][1])] = vs[k]

DeclaredUnder(cat) ==
    UNION {Range(AllEntries[i][2].items) :
                i \in {j \in 1..Len(AllEntries) : AllEntries[j][1] = cat}}

\* C9: in every row, a category column is empty or holds a token value
\* declared under that category, and the unresolved components of the tag are
\* in the unk column only.
CategoryCellsDeclared ==
    \A r \in 1..Len(csv_file) :
        /\ \A i \in CategoryPositions :
                \/ csv_file[r][i] = ""
                \/ /\ csv_file[r][i] \in DeclaredUnder(csv_header[i])
                   /\ csv_file[r][i] \in DOMAIN idv
        /\ \A k \in 1..Len(csv_file[r][Len(csv_header)]) :
                csv_file[r][Len(csv_header)][k] \notin DOMAIN idv

\* a completed run with a row that has a resolved and an unresolved component
RowWithUnknownComponent ==
    /\ Completed
    /\ \E r \in 1..Len(results.dataset.rows) :
            /\ results.dataset.rows[r][Len(csv_header)] # <<>>
            /\ \E i \in CategoryPositions : results.dataset.rows[r][i] # ""

\* no paragraph is left of the raw corpus after preprocessing
NothingLeft ==
    \A i \in 1..Len(corpus_in) : preprocess_corpus(corpus_in[i][2]) = <<>>

\* C10: a corpus left without paragraphs ends the run with the empty-corpus
\* error before any stage has run, and DCThread.run turns the error into the
\* failure message and emits finished.
EmptyCorpusAborts ==
    NothingLeft =>
        /\ pc \in {"start", "returned", "finished"}
        /\ annotations = <<>> /\ annotation_counter = <<>> /\ not_annotated_log = <<>>
        /\ csv_file = <<>> /\ csv_header = <<>>
        /\ pc = "returned" => ret = Raise("ValueError: The corpus is empty!")
        /\ pc = "finished" => /\ results = ErrMsg("ValueError: The corpus is empty!")
                              /\ finished

\* the failure message of the empty corpus has been handed over
EmptyCorpusReported ==
    /\ NothingLeft
    /\ pc = "finished"
    /\ finished
    /\ results = ErrMsg("ValueError: The corpus is empty!")

\* the columns the encoding sets aside as pass-through metadata
ExcludedColumns == {"token", "context", "file"}

\* C11: the encoded table of a completed run carries each of the excluded
\* columns token, context and file, row by row as in the row table, and has
\* no indicator column made from one of them.
ExcludedColumnsCarried ==
    Completed =>
        /\ \A c \in ExcludedColumns : c \in Range(results.binary_dataset.passthrough)
        /\ \A r \in 1..Len(results.dataset.rows) :
                /\ results.binary_dataset.rows[r].token
                        = results.dataset.rows[r][IndexOf(results.dataset.columns, "token")]
                /\ results.binary_dataset.rows[r].context
                        = results.dataset.rows[r][IndexOf(results.dataset.columns, "context")]
        /\ \A k \in 1..Len(results.binary_dataset.indicator_columns) :
                results.binary_dataset.indicator_columns[k][1] \notin ExcludedColumns

\* C12: with the previous-line option, the rows a paragraph adds hold the
\* paragraph just before it in the file as their previous line, and the rows
\* of the first paragraph of a file hold none of the later paragraphs of it.
PreviousLineIsPredecessor ==
    [][(pc = "main" /\ ti >= 1 /\ previous_line /\ Len(csv_file') > Len(csv_file)) =>
        LET crp == corpus_dict[fi][2]
            col == Len(csv_header) - 5
        IN \A r \in (Len(csv_file) + 1)..Len(csv_file') :
                IF ti >= 2
                THEN csv_file'[r][col] = crp[ti - 1]
                ELSE \A j \in 2..Len(crp) : csv_file'[r][col] # crp[j]]_vars

\* C13: a run whose stop flag is never set and whose per-file pass logged no
\* snippet does not end in the failure of the missing-annotation table (it
\* returns the bundle with an empty table).
EmptyLogCompletes ==
    (Ended /\ ~stop_event /\ SnippetLists = <<>> /\ ret.kind = "raise")
        => ret.exc # "ValueError: max() arg is an empty sequence"

====
